---- MODULE Spec2Model ----
(***************************************************************************)
(* Model of the crossword engine of src/CrosswordEngine.h: the grid and    *)
(* its spans (cw::Grid), the pattern-hashed word list (cw::Library) and    *)
(* the recursive backtracking search (cw::Engine).                         *)
(*                                                                         *)
(* A character is a one-character string.  A std::string is a sequence of  *)
(* characters.  Points are 0-based as in the source; sequences are 1-based *)
(* so an access to vecLines[r][c] reads g.vecLines[r + 1][c + 1].          *)
(* The model is of the build with assertions enabled: a failing assert     *)
(* aborts the process.                                                     *)
(***************************************************************************)
EXTENDS Integers, Sequences, FiniteSets, TLC

\* ----- bounds of the model -----
MaxRows == 2
MaxCols == 2
MaxWords == 4
MaxLineLen == 2
MaxLines == 2
MaxGridCols == 3

\* ----- characters -----
BLOCK == "#"
BLANK == "."
Letters == {"A", "B"}
GridChars == {BLOCK, BLANK} \cup Letters
\* characters a line of the word-list file is drawn from
RawChars == {"a", "B", ".", " "}
StripChars == {"\r", " ", "\t"}

Max(a, b) == IF a >= b THEN a ELSE b

RECURSIVE Pow2(_)
Pow2(n) == IF n = 0 THEN 1 ELSE 2 * Pow2(n - 1)

SeqsUpTo(S, n) == UNION {[1..k -> S] : k \in 0..n}

Range(s) == {s[i] : i \in DOMAIN s}

\* ----- cw::Point, cw::Span, cw::Attribute -----
Point(r, c) == [nRow |-> r, nCol |-> c]

Span(p, l, v) == [point |-> p, nLen |-> l, bVert |-> v]

\* Span::GetPoint; the caller keeps 0 <= i < nLen
GetPoint(span, i) ==
    IF span.bVert THEN Point(span.point.nRow + i, span.point.nCol)
    ELSE Point(span.point.nRow, span.point.nCol + i)

IsEmpty(attr) == attr.bHasBlanks /\ ~attr.bHasLetters
IsPartial(attr) == attr.bHasBlanks /\ attr.bHasLetters
IsFull(attr) == ~attr.bHasBlanks /\ attr.bHasLetters

\* ----- cw::Grid -----
\* A grid is [vecLines |-> rows of characters, vecSpans |-> sequence of spans]
rows(g) == Len(g.vecLines)
cols(g) == IF g.vecLines # <<>> THEN Len(g.vecLines[1]) ELSE 0
MaxSize(g) == Max(rows(g), cols(g))

IsInBounds(g, p) ==
    p.nRow >= 0 /\ p.nRow < rows(g) /\ p.nCol >= 0 /\ p.nCol < cols(g)

GetChar(g, p) == g.vecLines[p.nRow + 1][p.nCol + 1]

SetChar(g, p, c) == [g EXCEPT !.vecLines[p.nRow + 1][p.nCol + 1] = c]

IsBlock(g, p) == GetChar(g, p) = BLOCK

\* the points of the grid, and those that hold a letter (Grid::IsLetter)
CellsOf(g) == {Point(r, c) : r \in 0..(rows(g) - 1), c \in 0..(cols(g) - 1)}

LetterCells(g) == {p \in CellsOf(g) : GetChar(g, p) \in Letters}

\* Grid::Next: the point after p in the walk, wrapping at the end of a line
NextPoint(g, p, vert) ==
    IF vert
    THEN IF p.nRow + 1 >= rows(g) THEN Point(0, p.nCol + 1)
         ELSE Point(p.nRow + 1, p.nCol)
    ELSE IF p.nCol + 1 >= cols(g) THEN Point(p.nRow + 1, 0)
         ELSE Point(p.nRow, p.nCol + 1)

\* NextStopAtWrap with a fault: it returns what Grid::Next returns, whether the
\* next point is in bounds
NextStopInBounds(g, p, vert) ==
    [p |-> NextPoint(g, p, vert), ok |-> IsInBounds(g, NextPoint(g, p, vert))]

\* Grid::NextStopAtWrap: the next point, and whether the walk stayed on the line
NextStopAtWrap(g, p, vert) ==
    IF vert
    THEN IF p.nRow + 1 >= rows(g)
         THEN [p |-> Point(0, p.nCol + 1), ok |-> FALSE]
         ELSE [p |-> Point(p.nRow + 1, p.nCol), ok |-> TRUE]
    ELSE IF p.nCol + 1 >= cols(g)
         THEN [p |-> Point(p.nRow + 1, 0), ok |-> FALSE]
         ELSE [p |-> Point(p.nRow, p.nCol + 1), ok |-> TRUE]

\* the inner loop "while (IsInBounds(p) && IsBlock(p)) Next(p, vert)"
RECURSIVE SkipBlocks(_, _, _)
SkipBlocks(g, p, vert) ==
    IF IsInBounds(g, p) /\ IsBlock(g, p)
    THEN SkipBlocks(g, NextPoint(g, p, vert), vert)
    ELSE p

\* the do-while loop that counts the length of the span starting at p
RECURSIVE CountSpan(_, _, _, _)
CountSpan(g, p, vert, len) ==
    LET r == NextStopAtWrap(g, p, vert)
    IN IF r.ok /\ ~IsBlock(g, r.p)
       THEN CountSpan(g, r.p, vert, len + 1)
       ELSE [p |-> r.p, len |-> len + 1]

\* the outer loop of Grid::FillSpans(bool)
RECURSIVE FillSpansLoop(_, _, _, _)
FillSpansLoop(g, p, vert, spans) ==
    IF ~IsInBounds(g, p) THEN spans
    ELSE LET p0 == SkipBlocks(g, p, vert)
         IN IF ~IsInBounds(g, p0) THEN spans
            ELSE LET c == CountSpan(g, p0, vert, 0)
                 IN FillSpansLoop(g, c.p, vert,
                                  Append(spans, Span(p0, c.len, vert)))

FillSpansDir(g, vert) ==
    [g EXCEPT !.vecSpans = FillSpansLoop(g, Point(0, 0), vert, g.vecSpans)]

\* Grid::FillSpans(): the horizontal walk, then the vertical walk
FillSpans(g) == FillSpansDir(FillSpansDir(g, FALSE), TRUE)

\* Grid::GetString: the string of the span and its attribute
GetString(g, span) ==
    LET s == [i \in 1..span.nLen |-> GetChar(g, GetPoint(span, i - 1))]
    IN [s |-> s,
        attr |-> [bHasBlanks |-> \E i \in 1..span.nLen : s[i] = BLANK,
                  bHasLetters |-> \E i \in 1..span.nLen : s[i] \in Letters]]

\* the for loop of Grid::SetString, from index i (0-based) on
RECURSIVE SetStringLoop(_, _, _, _)
SetStringLoop(g, span, str, i) ==
    IF i >= span.nLen THEN g
    ELSE SetStringLoop(SetChar(g, GetPoint(span, i), str[i + 1]), span, str, i + 1)

\* SetString with a fault: the for loop starts at index 1
SetStringFromOne(g, span, str) == SetStringLoop(g, span, str, 1)

\* Grid::SetString; the caller keeps span.nLen = Len(str)
SetString(g, span, str) == SetStringLoop(g, span, str, 0)

\* Grid::LoadFromFile followed by Grid::FillSpans, as Engine::Init does
LoadGrid(lines) == FillSpans([vecLines |-> lines, vecSpans |-> <<>>])

\* ----- cw::Library -----
\* toupper on one character
ToUpperChar(c) == IF c = "a" THEN "A" ELSE IF c = "b" THEN "B" ELSE c

\* Library::ToUpper
ToUpper(sWord) == [i \in 1..Len(sWord) |-> ToUpperChar(sWord[i])]

\* MaskWord with a fault: the pattern is one character longer than the word
MaskWordPadded(s, i) ==
    [j \in 1..(Len(s) + 1) |->
        IF j > Len(s) \/ (i \div Pow2(j - 1)) % 2 = 1 THEN BLANK ELSE s[j]]

\* the inner loop of CreatePatternHash: bit j of i set masks position j to '.'
MaskWord(s, i) ==
    [j \in 1..Len(s) |-> IF (i \div Pow2(j - 1)) % 2 = 1 THEN BLANK ELSE s[j]]

\* PushBack with a fault: the word is put at the front of the bucket
PushFront(umap, s, word) ==
    IF s \in DOMAIN umap THEN [umap EXCEPT ![s] = <<word>> \o @]
    ELSE umap @@ (s :> <<word>>)

\* m_umapWords[s].push_back(word)
PushBack(umap, s, word) ==
    IF s \in DOMAIN umap THEN [umap EXCEPT ![s] = Append(@, word)]
    ELSE umap @@ (s :> <<word>>)

\* the outer loop of CreatePatternHash, from mask i on
RECURSIVE PatternLoop(_, _, _, _)
PatternLoop(umap, word, i, nPatterns) ==
    IF i >= nPatterns THEN umap
    ELSE PatternLoop(PushBack(umap, MaskWord(word, i), word), word, i + 1, nPatterns)

\* CreatePatternHash with a fault: the loop starts at mask 1
CreatePatternHashFromOne(umap, word) == PatternLoop(umap, word, 1, Pow2(Len(word)))

\* Library::CreatePatternHash
CreatePatternHash(umap, word) == PatternLoop(umap, word, 0, Pow2(Len(word)))

\* the removal of one trailing '\r', ' ' or '\t' in ReadFromFile
StripLast(line) ==
    IF line[Len(line)] \in StripChars THEN SubSeq(line, 1, Len(line) - 1) ELSE line

\* one iteration of the while loop of Library::ReadFromFile on the line read;
\* lib is [m_vecWords |-> master list, m_umapWords |-> pattern hash]
ReadLine(lib, rawLine, nMaxSize) ==
    IF rawLine = <<>> THEN lib
    ELSE LET line == StripLast(ToUpper(rawLine))
         IN IF Len(line) <= nMaxSize
            THEN [m_vecWords |-> Append(lib.m_vecWords, line),
                  m_umapWords |-> CreatePatternHash(lib.m_umapWords, line)]
            ELSE lib

EmptyLibrary == [m_vecWords |-> <<>>, m_umapWords |-> <<>>]

\* Library::IsWord
IsWord(lib, sWord) == sWord \in DOMAIN lib.m_umapWords

\* Library::FindWord: the bucket of the pattern, or the empty tuple tagged
\* found = FALSE for nullptr
FindWord(lib, sPattern) ==
    IF sPattern \in DOMAIN lib.m_umapWords
    THEN [found |-> TRUE, words |-> lib.m_umapWords[sPattern]]
    ELSE [found |-> FALSE, words |-> <<>>]

\* ----- inputs -----
\* the kept lines of a grid file: rectangular, at most MaxRows x MaxCols, or none
GridFiles ==
    {<<>>} \cup UNION {[1..r -> [1..c -> GridChars]] : r \in 1..MaxRows, c \in 1..MaxCols}

\* the kept lines of a grid file of up to MaxGridCols columns
WideGridFiles ==
    {<<>>} \cup UNION {[1..r -> [1..c -> GridChars]] : r \in 1..MaxRows, c \in 1..MaxGridCols}

\* the all-blank grid file of every shape
BlankGridFiles ==
    {<<>>} \cup {[i \in 1..r |-> [j \in 1..c |-> BLANK]] : r \in 1..MaxRows, c \in 1..MaxCols}

\* lines of a word-list file for the search: words of one and two letters, a
\* lower-case line, a line ending in '\r', and lines holding a non-letter
DictLines ==
    {<<"a">>, <<"B">>, <<"a", "B", "\r">>, <<"A", "#">>, <<"A", ".">>}

\* lines of a word-list file for the loading of the library
RawLines == SeqsUpTo(RawChars, MaxLineLen)

\* ----- state -----
VARIABLES
    m_grid,      \* Engine::m_grid, the grid Engine::Init loaded
    m_lib,       \* Engine::m_lib: m_vecWords and m_umapWords
    stack,       \* the activation records of Engine::Loop, outermost first
    solutions,   \* the grids printed after "Solution Found!", in order
    pc,          \* "loading", "searching", "done", "aborted", "overflow"
    nRead,       \* lines ReadFromFile has read so far
    grid0,       \* history: m_grid as Engine::Init left it
    paths,       \* history: for each solution, the candidate indices that led to it
    nCommits,    \* history: number of calls of Grid::SetString by CommitSlot
    lettered     \* history: the cells that held a letter in the grid of some node

vars == <<m_grid, m_lib, stack, solutions, pc, nRead, grid0, paths, nCommits, lettered>>

\* no activation of Loop is deeper than this unless a commit left its grid
\* unchanged, and then the recursion never returns
MaxDepth == MaxRows * MaxCols + 1

\* ----- cw::Engine -----
\* LoopParam with a fault: Loop(Grid& grid, int nDepth), the activation works on
\* the grid object of its caller
LoopParamByRef(callerRef, n) == callerRef

\* which Grid object an activation of Loop(Grid grid, int nDepth) works on: the
\* parameter is passed by value, so activation n works on its own copy.
\* Object 0 is *m_grid, object k is the local grid of activation k.
LoopParam(callerRef, n) == n

Deref(ref) == IF ref = 0 THEN m_grid ELSE stack[ref].grid

Top == stack[Len(stack)]

\* the slots of one kind, in span order (the first for loop of Loop)
Slot(g, span) == [span |-> span, sPattern |-> GetString(g, span).s]

EmptySlots(g) ==
    LET keep == SelectSeq(g.vecSpans, LAMBDA sp : IsEmpty(GetString(g, sp).attr))
    IN [i \in 1..Len(keep) |-> Slot(g, keep[i])]

PartialSlots(g) ==
    LET keep == SelectSeq(g.vecSpans, LAMBDA sp : IsPartial(GetString(g, sp).attr))
    IN [i \in 1..Len(keep) |-> Slot(g, keep[i])]

FullSlots(g) ==
    LET keep == SelectSeq(g.vecSpans, LAMBDA sp : IsFull(GetString(g, sp).attr))
    IN [i \in 1..Len(keep) |-> Slot(g, keep[i])]

\* DuplicateLoop with a fault: the string is added to the set before the test
RECURSIVE DuplicateLoopAddFirst(_, _, _)
DuplicateLoopAddFirst(fulls, i, usetStrings) ==
    IF i > Len(fulls) THEN FALSE
    ELSE IF fulls[i].sPattern \in (usetStrings \cup {fulls[i].sPattern}) THEN TRUE
    ELSE DuplicateLoopAddFirst(fulls, i + 1, usetStrings \cup {fulls[i].sPattern})

\* "Check if there are duplicates": the loop over the full slots with the
\* transient set usetStrings, from slot i on; TRUE when the loop returns early
RECURSIVE DuplicateLoop(_, _, _)
DuplicateLoop(fulls, i, usetStrings) ==
    IF i > Len(fulls) THEN FALSE
    ELSE IF fulls[i].sPattern \in usetStrings THEN TRUE
    ELSE DuplicateLoop(fulls, i + 1, usetStrings \cup {fulls[i].sPattern})

\* NewFrame with a fault: every call is Loop(*m_grid, nDepth), the activation
\* gets a copy of the grid of the engine
NewFrameOfEngineGrid(callerGrid, callerRef, n) ==
    [grid |-> m_grid, ref |-> LoopParam(callerRef, n), at |-> "enter",
     slot |-> Slot(m_grid, Span(Point(0, 0), 0, FALSE)), words |-> <<>>,
     idx |-> 0, entry |-> m_grid.vecLines]

\* the frame of a new activation of Loop called with the grid object callerRef
NewFrame(callerGrid, callerRef, n) ==
    [grid |-> callerGrid, ref |-> LoopParam(callerRef, n), at |-> "enter",
     slot |-> Slot(callerGrid, Span(Point(0, 0), 0, FALSE)), words |-> <<>>,
     idx |-> 0, entry |-> callerGrid.vecLines]

\* the return of the innermost activation; Search returns with the outermost
Return ==
    /\ stack' = SubSeq(stack, 1, Len(stack) - 1)
    /\ pc' = IF Len(stack) = 1 THEN "done" ELSE pc

\* the body of Loop on grid g up to its return or its call of CommitSlot:
\* what it does ("invalid", "duplicate", "solution", "assert", "deadend",
\* "commit"), and for a commit the slot chosen and the bucket FindWord returned
LoopBody(lib, g) ==
    LET fulls == FullSlots(g)
        partials == PartialSlots(g)
        nEmpty == Len(EmptySlots(g))
        nPartial == Len(partials)
        found == FindWord(lib, partials[1].sPattern)
    IN IF \E i \in 1..Len(fulls) : ~IsWord(lib, fulls[i].sPattern)
       THEN [does |-> "invalid"]
       ELSE IF DuplicateLoop(fulls, 1, {})
       THEN [does |-> "duplicate"]
       ELSE IF nPartial = 0 /\ nEmpty = 0
       THEN [does |-> "solution"]
       ELSE IF ~(nPartial > 0)
       THEN [does |-> "assert"]
       ELSE IF ~found.found
       THEN [does |-> "deadend"]
       ELSE [does |-> "commit", slot |-> partials[1], words |-> found.words]

Node == pc = "searching" /\ stack # <<>> /\ Top.at = "enter"

\* ----- Engine::Init -----
\* the state after Engine::Init has loaded the grid and derived its spans,
\* before Library::ReadFromFile reads the first line
InitWith(gridFiles) ==
    \E gf \in gridFiles :
        /\ m_grid = LoadGrid(gf)
        /\ m_lib = EmptyLibrary
        /\ grid0 = LoadGrid(gf)
        /\ stack = <<>>
        /\ solutions = <<>>
        /\ pc = "loading"
        /\ nRead = 0
        /\ paths = <<>>
        /\ nCommits = 0
        /\ lettered = {}

\* one iteration of the while loop of Library::ReadFromFile, the line read
\* being one of lines; at most maxLines lines are read
ReadLineFrom(lines, maxLines) ==
    /\ pc = "loading"
    /\ nRead < maxLines
    /\ \E line \in lines : m_lib' = ReadLine(m_lib, line, MaxSize(m_grid))
    /\ nRead' = nRead + 1
    /\ UNCHANGED <<m_grid, stack, solutions, pc, grid0, paths, nCommits, lettered>>

Init == InitWith(GridFiles)

ReadLineStep == ReadLineFrom(DictLines, MaxWords)

\* the word-list file is at its end and Engine::Init returns;
\* Engine::Search: Loop(*m_grid, 0)
Search ==
    /\ pc = "loading"
    /\ pc' = "searching"
    /\ stack' = <<NewFrame(m_grid, 0, 1)>>
    /\ lettered' = LetterCells(m_grid)
    /\ UNCHANGED <<m_grid, m_lib, solutions, nRead, grid0, paths, nCommits>>

\* Loop returns because a full slot is not a word
LoopPruneInvalid ==
    /\ Node
    /\ LoopBody(m_lib, Deref(Top.ref)).does = "invalid"
    /\ Return
    /\ UNCHANGED <<m_grid, m_lib, solutions, nRead, grid0, paths, nCommits, lettered>>

\* Loop returns because two full slots hold the same string
LoopPruneDuplicate ==
    /\ Node
    /\ LoopBody(m_lib, Deref(Top.ref)).does = "duplicate"
    /\ Return
    /\ UNCHANGED <<m_grid, m_lib, solutions, nRead, grid0, paths, nCommits, lettered>>

\* Loop prints "Solution Found!" and the grid, and returns
LoopSolution ==
    /\ Node
    /\ LoopBody(m_lib, Deref(Top.ref)).does = "solution"
    /\ solutions' = Append(solutions, Deref(Top.ref).vecLines)
    /\ paths' = Append(paths, [k \in 1..(Len(stack) - 1) |-> stack[k].idx - 1])
    /\ Return
    /\ UNCHANGED <<m_grid, m_lib, nRead, grid0, nCommits, lettered>>

\* assert(nPartial > 0) fails
LoopAssertFail ==
    /\ Node
    /\ LoopBody(m_lib, Deref(Top.ref)).does = "assert"
    /\ pc' = "aborted"
    /\ UNCHANGED <<m_grid, m_lib, stack, solutions, nRead, grid0, paths, nCommits, lettered>>

\* Loop calls CommitSlot(grid, vecPartialSlots[0], nDepth) and FindWord
\* returns nullptr: CommitSlot and Loop return
LoopDeadEnd ==
    /\ Node
    /\ LoopBody(m_lib, Deref(Top.ref)).does = "deadend"
    /\ Return
    /\ UNCHANGED <<m_grid, m_lib, solutions, nRead, grid0, paths, nCommits, lettered>>

\* Loop calls CommitSlot(grid, vecPartialSlots[0], nDepth) and FindWord
\* returns a bucket: the for loop over the bucket starts
LoopCommitSlot ==
    /\ Node
    /\ LET body == LoopBody(m_lib, Deref(Top.ref))
       IN /\ body.does = "commit"
          /\ stack' = [stack EXCEPT ![Len(stack)] =
                          [@ EXCEPT !.at = "commit", !.slot = body.slot,
                                    !.words = body.words, !.idx = 1]]
    /\ UNCHANGED <<m_grid, m_lib, solutions, pc, nRead, grid0, paths, nCommits, lettered>>

InCommit == pc = "searching" /\ stack # <<>> /\ Top.at = "commit"

\* one iteration of the for loop of CommitSlot: grid.SetString(slot.span, w->s)
\* on the grid object of this activation, then Loop(grid, nDepth) on a copy
CommitNext ==
    /\ InCommit
    /\ Top.idx <= Len(Top.words)
    /\ Len(stack) < MaxDepth
    /\ LET f == Top
           w == f.words[f.idx]
           n == Len(stack)
           g2 == SetString(Deref(f.ref), f.slot.span, w)
           written == IF f.ref = 0 THEN stack ELSE [stack EXCEPT ![f.ref].grid = g2]
       IN IF f.slot.span.nLen = Len(w)
          THEN /\ m_grid' = IF f.ref = 0 THEN g2 ELSE m_grid
               /\ stack' = Append([written EXCEPT ![n].idx = f.idx + 1],
                                  NewFrame(g2, f.ref, n + 1))
               /\ nCommits' = nCommits + 1
               /\ lettered' = lettered \cup LetterCells(g2)
               /\ pc' = pc
          ELSE \* assert(len == str.length()) in SetString fails
               /\ pc' = "aborted"
               /\ UNCHANGED <<m_grid, stack, nCommits, lettered>>
    /\ UNCHANGED <<m_lib, solutions, nRead, grid0, paths>>

\* the recursion is deeper than any that returns: the stack overflows
StackOverflow ==
    /\ InCommit
    /\ Top.idx <= Len(Top.words)
    /\ Len(stack) >= MaxDepth
    /\ pc' = "overflow"
    /\ UNCHANGED <<m_grid, m_lib, stack, solutions, nRead, grid0, paths, nCommits, lettered>>

\* the for loop of CommitSlot is over: CommitSlot and Loop return
CommitReturn ==
    /\ InCommit
    /\ Top.idx > Len(Top.words)
    /\ Return
    /\ UNCHANGED <<m_grid, m_lib, solutions, nRead, grid0, paths, nCommits, lettered>>

Next ==
    \/ ReadLineStep
    \/ Search
    \/ LoopPruneInvalid
    \/ LoopPruneDuplicate
    \/ LoopSolution
    \/ LoopAssertFail
    \/ LoopDeadEnd
    \/ LoopCommitSlot
    \/ CommitNext
    \/ StackOverflow
    \/ CommitReturn

Spec == Init /\ [][Next]_vars

\* ----- the loading of the library alone, over every line of raw characters -----
InitLib == InitWith(BlankGridFiles)

ReadRawLineStep == ReadLineFrom(RawLines, MaxLines)

NextLib == ReadRawLineStep

SpecLib == InitLib /\ [][NextLib]_vars

\* ----- the grid alone: SetString on the spans of every grid -----
\* the words of n letters
LetterWords(n) == [1..n -> Letters]

\* a call grid.SetString(span, w) on the grid as loaded, span being one of its
\* spans and w a word of letters of the length of the span
SetStringStep ==
    /\ pc = "loading"
    /\ m_grid = grid0
    /\ \E sp \in Range(m_grid.vecSpans) : \E w \in LetterWords(sp.nLen) :
          m_grid' = SetString(m_grid, sp, w)
    /\ UNCHANGED <<m_lib, stack, solutions, pc, nRead, grid0, paths, nCommits, lettered>>

NextGrid == SetStringStep

\* the grids of this specification are up to MaxGridCols wide, so that a line
\* can hold two runs
InitGrid == InitWith(WideGridFiles)

SpecGrid == InitGrid /\ [][NextGrid]_vars

\* ===== properties =====
\* the words of the loaded dictionary
LoadedWords == Range(m_lib.m_vecWords)

\* w agrees with pattern p: same length, same character wherever p is not '.'
Matches(w, p) ==
    Len(w) = Len(p) /\ \A i \in 1..Len(p) : p[i] = BLANK \/ p[i] = w[i]

\* the strings of the spans of the input grid in the cells L
SpanStrings(L) ==
    [i \in 1..Len(grid0.vecSpans) |->
        GetString([vecLines |-> L, vecSpans |-> grid0.vecSpans], grid0.vecSpans[i]).s]

HasBlank(L) == \E r \in 1..Len(L) : \E c \in 1..Len(L[r]) : L[r][c] = BLANK

\* every span of L spells a loaded word and no two spans spell the same string
SpansAreDistinctWords(L) ==
    LET strs == SpanStrings(L)
    IN /\ \A i \in 1..Len(strs) : strs[i] \in LoadedWords
       /\ \A i, j \in 1..Len(strs) : i # j => strs[i] # strs[j]

\* L keeps the blocks and the letters of the input grid
KeepsInput(L) ==
    \A p \in CellsOf(grid0) :
        LET c0 == GetChar(grid0, p)
            c == L[p.nRow + 1][p.nCol + 1]
        IN /\ (c0 = BLOCK) <=> (c = BLOCK)
           /\ c0 \in Letters => c = c0

\* the fillings of the input grid: every blank replaced by a letter
Fillings ==
    {L \in [1..rows(grid0) -> [1..cols(grid0) -> GridChars]] :
        /\ ~HasBlank(L)
        /\ \A p \in CellsOf(grid0) :
              GetChar(grid0, p) # BLANK => L[p.nRow + 1][p.nCol + 1] = GetChar(grid0, p)}

\* the solutions of the input grid with the loaded dictionary
SolutionsOfInput == {L \in Fillings : SpansAreDistinctWords(L)}

\* C1: every emitted grid has no blank cell, every span of it spells a word of
\* the loaded dictionary, and the strings of its spans are pairwise distinct.
C1_EmittedAreSolutions ==
    \A k \in 1..Len(solutions) :
        ~HasBlank(solutions[k]) /\ SpansAreDistinctWords(solutions[k])

\* C2: the search never aborts, and when it has returned every solution of the
\* input grid has been emitted, and nothing has been if there is none.
C2_SearchFindsSolutions ==
    /\ pc \notin {"aborted", "overflow"}
    /\ pc = "done" =>
          /\ SolutionsOfInput \subseteq Range(solutions)
          /\ SolutionsOfInput = {} => solutions = <<>>

\* C3: every emitted grid has blocks exactly where the input grid has them and
\* the input grid's letter wherever the input grid holds a letter.
C3_EmittedKeepInput ==
    \A k \in 1..Len(solutions) : KeepsInput(solutions[k])

IsBlankRow(g) ==
    rows(g) = 1 /\ \A c \in 1..cols(g) : g.vecLines[1][c] = BLANK

\* C5: for an input grid of one all-blank row of length L and a dictionary
\* whose words all have length L, the search returns having emitted one
\* solution per word, the row filled with that word, and nothing else.
C5_BlankRowPerWord ==
    (/\ pc # "loading"
     /\ IsBlankRow(grid0)
     /\ \A w \in LoadedWords : Len(w) = cols(grid0))
    => /\ pc \notin {"aborted", "overflow"}
       /\ pc = "done" =>
             /\ Len(solutions) = Cardinality(LoadedWords)
             /\ \A w \in LoadedWords : <<w>> \in Range(solutions)

\* C6: no grid is emitted more than once.
C6_NoSolutionTwice ==
    \A i, j \in 1..Len(solutions) : i # j => solutions[i] # solutions[j]

PatternChars == {"A", "B", BLANK, " "}

Patterns == SeqsUpTo(PatternChars, MaxLineLen)

MaskedAt(w, S) == [j \in 1..Len(w) |-> IF j \in S THEN BLANK ELSE w[j]]

\* C4: FindWord(p) returns a list exactly when some loaded word matches p, the
\* list holds exactly the loaded words that match p, every loaded word is in
\* the bucket of each of its masked patterns, and no bucket holds a word that
\* does not match its key.
C4_FindWordExact ==
    /\ \A p \in Patterns :
          LET r == FindWord(m_lib, p)
              matching == {w \in LoadedWords : Matches(w, p)}
          IN /\ r.found <=> matching # {}
             /\ r.found => Range(r.words) = matching
    /\ \A w \in LoadedWords : \A S \in SUBSET (1..Len(w)) :
          /\ FindWord(m_lib, MaskedAt(w, S)).found
          /\ w \in Range(FindWord(m_lib, MaskedAt(w, S)).words)
    /\ \A k \in DOMAIN m_lib.m_umapWords :
          \A w \in Range(m_lib.m_umapWords[k]) : w \in LoadedWords /\ Matches(w, k)

\* a one-letter word is loaded: its patterns are keys, a longer pattern is not
C4_Witness ==
    /\ m_lib.m_vecWords = << <<"A">>, <<"B", "A">> >>
    /\ FindWord(m_lib, <<BLANK>>).words = << <<"A">> >>
    /\ FindWord(m_lib, <<BLANK, "A">>).words = << <<"B", "A">> >>
    /\ ~FindWord(m_lib, <<"A", BLANK>>).found

LexLess(p, q) ==
    \E k \in 1..Len(p) :
        /\ k <= Len(q)
        /\ p[k] < q[k]
        /\ \A j \in 1..(k - 1) : p[j] = q[j]

RECURSIVE Repeat(_, _)
Repeat(w, n) == IF n = 0 THEN <<>> ELSE <<w>> \o Repeat(w, n - 1)

\* the loaded words from the k-th on, each once per mask that yields p
RECURSIVE InLoadOrder(_, _, _)
InLoadOrder(words, p, k) ==
    IF k > Len(words) THEN <<>>
    ELSE Repeat(words[k],
                Cardinality({S \in SUBSET (1..Len(words[k])) : MaskedAt(words[k], S) = p}))
         \o InLoadOrder(words, p, k + 1)

FillsFirstPartialInLoadOrder(k) ==
    LET f == stack[k]
        ge == [vecLines |-> f.entry, vecSpans |-> grid0.vecSpans]
        partial(i) == IsPartial(GetString(ge, ge.vecSpans[i]).attr)
    IN /\ \E i \in 1..Len(ge.vecSpans) :
              /\ partial(i)
              /\ \A j \in 1..(i - 1) : ~partial(j)
              /\ f.slot = Slot(ge, ge.vecSpans[i])
       /\ f.words = InLoadOrder(m_lib.m_vecWords, f.slot.sPattern, 1)
       /\ k < Len(stack) =>
              stack[k + 1].entry = SetString(ge, f.slot.span, f.words[f.idx - 1]).vecLines

\* C7: solutions are emitted in depth-first order: the slot an activation
\* fills is the first partial slot in span order, its candidates are the
\* loaded words matching the pattern in load order, its k-th child gets the
\* k-th candidate, and successive solutions have lexicographically increasing
\* candidate paths.
C7_DepthFirstOrder ==
    /\ \A i \in 1..(Len(paths) - 1) : LexLess(paths[i], paths[i + 1])
    /\ \A k \in 1..Len(stack) : stack[k].at = "commit" => FillsFirstPartialInLoadOrder(k)

\* two solutions below different candidates of the root, after a second level
C7_Witness ==
    /\ pc = "done"
    /\ Len(paths) >= 2
    /\ paths[1][1] < paths[2][1]
    /\ nCommits >= 3

\* C8: for an input grid with no blank whose spans spell pairwise distinct
\* loaded words (no span at all included), the search commits nothing, emits
\* the input grid once and returns.
C8_FilledInputEmittedOnce ==
    (/\ pc # "loading"
     /\ ~HasBlank(grid0.vecLines)
     /\ SpansAreDistinctWords(grid0.vecLines))
    => /\ nCommits = 0
       /\ pc \in {"searching", "done"}
       /\ pc = "searching" => solutions = <<>> /\ ENABLED LoopSolution
       /\ pc = "done" => solutions = <<grid0.vecLines>>

C8_Witness ==
    /\ pc = "done"
    /\ Len(grid0.vecSpans) = 3
    /\ ~HasBlank(grid0.vecLines)
    /\ solutions = <<grid0.vecLines>>
    /\ nCommits = 0

IsLetterWord(w, nMaxSize) ==
    /\ w # <<>>
    /\ \A i \in 1..Len(w) : w[i] \in Letters
    /\ Len(w) <= nMaxSize

\* C9: every word of the master list and of every bucket is a non-empty
\* string of letters no longer than the maximum size.
C9_OnlyLetterWords ==
    /\ \A w \in LoadedWords : IsLetterWord(w, MaxSize(m_grid))
    /\ \A k \in DOMAIN m_lib.m_umapWords :
          \A w \in Range(m_lib.m_umapWords[k]) : IsLetterWord(w, MaxSize(m_grid))

\* C10: the grid held by the engine keeps the cells and the spans it had
\* when Search was called, at every point of the search.
C10_EngineGridUntouched == m_grid = grid0

C10_Witness ==
    /\ pc = "done"
    /\ nCommits >= 2
    /\ Len(solutions) >= 1
    /\ m_grid = grid0

\* the points of a span, and whether all of them are blank in g
SpanCells(sp) == {GetPoint(sp, i) : i \in 0..(sp.nLen - 1)}

AllBlank(g, sp) == \A p \in SpanCells(sp) : GetChar(g, p) = BLANK

\* an isolated empty span: all blank in the input grid, and none of its cells
\* held a letter at any node of the search
IsolatedEmpty(sp) == AllBlank(grid0, sp) /\ SpanCells(sp) \cap lettered = {}

\* C11: when the search has ended and the input grid has an isolated empty
\* span (all blank, no cell of it given a letter at any node), no solution
\* has been emitted.
C11_IsolatedSpanNoSolution ==
    pc \in {"done", "aborted", "overflow"} =>
        \A sp \in Range(grid0.vecSpans) : IsolatedEmpty(sp) => solutions = <<>>

\* C12: for every span of the grid and every word w of letters of the length
\* of the span, GetString after SetString(span, w) returns w with the
\* attribute full, and SetString changes no cell outside the span, no span
\* and not the size of the grid.
C12_SetThenGet ==
    \A sp \in Range(m_grid.vecSpans) : \A w \in LetterWords(sp.nLen) :
        LET g2 == SetString(m_grid, sp, w)
        IN /\ GetString(g2, sp).s = w
           /\ IsFull(GetString(g2, sp).attr)
           /\ rows(g2) = rows(m_grid) /\ cols(g2) = cols(m_grid)
           /\ g2.vecSpans = m_grid.vecSpans
           /\ \A p \in CellsOf(m_grid) \ SpanCells(sp) : GetChar(g2, p) = GetChar(m_grid, p)

\* SetString has written a word into an all-blank span of two cells of a grid
\* that has a blank cell and a letter outside the span
C12_Witness ==
    \E sp \in Range(m_grid.vecSpans) :
        /\ sp.nLen = 2
        /\ AllBlank(grid0, sp)
        /\ GetString(m_grid, sp).s \in LetterWords(2)
        /\ m_grid = SetString(grid0, sp, GetString(m_grid, sp).s)
        /\ \E p, q \in CellsOf(grid0) \ SpanCells(sp) :
              GetChar(m_grid, p) = BLANK /\ GetChar(m_grid, q) \in Letters

\* the cell before the origin of a span and the cell after its end
Before(sp) ==
    IF sp.bVert THEN Point(sp.point.nRow - 1, sp.point.nCol)
    ELSE Point(sp.point.nRow, sp.point.nCol - 1)

After(sp) == GetPoint(sp, sp.nLen)

Closed(g, p) == ~IsInBounds(g, p) \/ IsBlock(g, p)

\* the maximal runs of non-block cells of g, in both directions
IsMaximalRun(g, sp) ==
    /\ \A p \in SpanCells(sp) : IsInBounds(g, p) /\ ~IsBlock(g, p)
    /\ Closed(g, Before(sp))
    /\ Closed(g, After(sp))

MaximalRuns(g) ==
    {sp \in {Span(p, l, v) : p \in CellsOf(g), l \in 1..MaxSize(g), v \in BOOLEAN} :
        IsMaximalRun(g, sp)}

\* a is before b in the list: horizontal spans first, by row then column of
\* the origin; vertical spans after them, by column then row of the origin
StartsBefore(a, b) ==
    IF a.bVert # b.bVert THEN ~a.bVert
    ELSE IF a.bVert
         THEN \/ a.point.nCol < b.point.nCol
              \/ a.point.nCol = b.point.nCol /\ a.point.nRow < b.point.nRow
         ELSE \/ a.point.nRow < b.point.nRow
              \/ a.point.nRow = b.point.nRow /\ a.point.nCol < b.point.nCol

\* the lines of a grid with every cell that is not a block made blank
BlocksOnly(L) ==
    [r \in 1..Len(L) |-> [c \in 1..Len(L[r]) |-> IF L[r][c] = BLOCK THEN BLOCK ELSE BLANK]]

\* C13: the spans of the grid are exactly the maximal runs of non-block cells
\* (those of length 1 included), every non-block cell lies in exactly one
\* horizontal and one vertical span, the list holds the horizontal spans in
\* row-major order of their origins and then the vertical spans in column-major
\* order, and FillSpans gives the same list for the grid with every letter
\* blanked and for the grid with the letters SetString wrote.
C13_SpansAreMaximalRuns ==
    LET S == m_grid.vecSpans
    IN /\ Range(S) = MaximalRuns(m_grid)
       /\ \A i, j \in 1..Len(S) : i < j => StartsBefore(S[i], S[j])
       /\ \A p \in CellsOf(m_grid) : ~IsBlock(m_grid, p) =>
              \A v \in BOOLEAN :
                  Cardinality({i \in 1..Len(S) : S[i].bVert = v /\ p \in SpanCells(S[i])}) = 1
       /\ S = LoadGrid(BlocksOnly(m_grid.vecLines)).vecSpans
       /\ S = LoadGrid(m_grid.vecLines).vecSpans

\* a grid of two rows with a block between two runs of the first row: runs of
\* one, two and three cells, and letters written after the spans were derived
C13_Witness ==
    /\ grid0.vecLines = << <<BLANK, BLOCK, BLANK>>, <<BLANK, BLANK, BLANK>> >>
    /\ m_grid.vecLines = << <<BLANK, BLOCK, BLANK>>, <<"A", "B", "A">> >>
    /\ m_grid.vecSpans = << Span(Point(0, 0), 1, FALSE), Span(Point(0, 2), 1, FALSE),
                            Span(Point(1, 0), 3, FALSE), Span(Point(0, 0), 2, TRUE),
                            Span(Point(1, 1), 1, TRUE), Span(Point(0, 2), 2, TRUE) >>

\* C14: at every node that passes the validity and uniqueness prunes and is
\* not a solution (some slot is empty or partial), at least one slot is
\* partial: assert(nPartial > 0) does not fail.
C14_PartialSlotExists ==
    Node =>
        LET g == Deref(Top.ref)
        IN (/\ LoopBody(m_lib, g).does \notin {"invalid", "duplicate"}
            /\ Len(EmptySlots(g)) + Len(PartialSlots(g)) > 0)
           => Len(PartialSlots(g)) > 0

\* C15: the grid a child node is entered with equals the grid its parent was
\* entered with in every cell outside the span the parent chose, and holds
\* the candidate of that child in the cells of the span; the grid a node works
\* on when it is entered is the grid it was called with.
C15_ChildSeesOnlyItsCandidate ==
    /\ \A k \in 1..(Len(stack) - 1) :
          LET f == stack[k]
              w == f.words[f.idx - 1]
          IN \A p \in CellsOf(grid0) :
                LET c == stack[k + 1].entry[p.nRow + 1][p.nCol + 1]
                IN IF p \in SpanCells(f.slot.span)
                   THEN \E i \in 0..(f.slot.span.nLen - 1) :
                            GetPoint(f.slot.span, i) = p /\ c = w[i + 1]
                   ELSE c = f.entry[p.nRow + 1][p.nCol + 1]
    /\ Node => Deref(Top.ref).vecLines = Top.entry

\* the second candidate of the root is being entered after a descendant of
\* the first candidate has committed a word of its own
C15_Witness ==
    /\ Node
    /\ Len(stack) = 2
    /\ stack[1].idx = 3
    /\ stack[1].words[1] # stack[1].words[2]
    /\ nCommits >= 3

\* the grid activation k of Loop was entered with
EntryGrid(k) == [vecLines |-> stack[k].entry, vecSpans |-> grid0.vecSpans]

BlankCells(g) == {p \in CellsOf(g) : GetChar(g, p) = BLANK}

NonFullSpans(g) ==
    {i \in 1..Len(g.vecSpans) : ~IsFull(GetString(g, g.vecSpans[i]).attr)}

\* C16: the slot a node commits is partial in the grid of the node and full in
\* the grid of each child, the child has fewer blank cells than the node,
\* every slot full in the node is full with the same string in the child, the
\* number of commits on the path to a node is at most the number of spans not
\* full in the input grid, and the recursion does not descend without end.
C16_CommitsFillAndBound ==
    /\ \A k \in 1..(Len(stack) - 1) :
          LET pg == EntryGrid(k)
              cg == EntryGrid(k + 1)
          IN /\ IsPartial(GetString(pg, stack[k].slot.span).attr)
             /\ IsFull(GetString(cg, stack[k].slot.span).attr)
             /\ Cardinality(BlankCells(cg)) < Cardinality(BlankCells(pg))
             /\ \A sp \in Range(grid0.vecSpans) :
                   IsFull(GetString(pg, sp).attr) => GetString(cg, sp) = GetString(pg, sp)
    /\ Len(stack) - 1 <= Cardinality(NonFullSpans(grid0))
    /\ pc # "overflow"

\* the grid objects alive: that of the engine and the local one of every
\* activation of Loop
LiveGrids == {m_grid} \cup {stack[k].grid : k \in 1..Len(stack)}

\* C17: with a dictionary of letter-only words, every candidate FindWord
\* returned for the pattern of a slot has the length of the span of the slot,
\* so that the length assertion of SetString holds, and every point of every
\* span of every grid is inside the grid, so that the bounds assertions of
\* GetChar and SetChar hold for the indices 0 <= i < nLen GetPoint is called with.
C17_AssertionsHold ==
    (\A w \in LoadedWords : IsLetterWord(w, MaxSize(grid0))) =>
        /\ \A k \in 1..Len(stack) :
              stack[k].at = "commit" =>
                  /\ Len(stack[k].slot.sPattern) = stack[k].slot.span.nLen
                  /\ \A i \in 1..Len(stack[k].words) :
                        Len(stack[k].words[i]) = stack[k].slot.span.nLen
        /\ \A g \in LiveGrids :
              /\ rows(g) = rows(grid0) /\ cols(g) = cols(grid0)
              /\ \A sp \in Range(g.vecSpans) :
                    sp.nLen >= 1 /\ \A p \in SpanCells(sp) : IsInBounds(g, p)

\* two words of letters have been committed to spans of two cells, one of
\* them vertical, and the search has returned
C17_Witness ==
    /\ pc = "done"
    /\ \A w \in LoadedWords : IsLetterWord(w, MaxSize(grid0))
    /\ \E w \in LoadedWords : Len(w) = 2
    /\ rows(grid0) = 2 /\ cols(grid0) = 2
    /\ nCommits >= 2
    /\ solutions # <<>>

\* the cells of g that are not blocks, and those a walk over orthogonally
\* adjacent non-block cells reaches from the cells S
OpenCells(g) == {p \in CellsOf(g) : ~IsBlock(g, p)}

Adjacent(p, q) ==
    \/ p.nRow = q.nRow /\ (p.nCol - q.nCol) \in {-1, 1}
    \/ p.nCol = q.nCol /\ (p.nRow - q.nRow) \in {-1, 1}

RECURSIVE Region(_, _)
Region(g, S) ==
    LET T == S \cup {q \in OpenCells(g) : \E p \in S : Adjacent(p, q)}
    IN IF T = S THEN S ELSE Region(g, T)

IsConnected(g) == \A p \in OpenCells(g) : Region(g, {p}) = OpenCells(g)

\* C18: for an input grid whose non-block cells form one orthogonally
\* connected region and hold at least one letter, every node has no blank
\* cell or has a partial slot, and the search neither aborts nor descends
\* without end.
C18_ConnectedGridHasPartial ==
    (IsConnected(grid0) /\ LetterCells(grid0) # {}) =>
        /\ pc \notin {"aborted", "overflow"}
        /\ Node => \/ ~HasBlank(Deref(Top.ref).vecLines)
                   \/ Len(PartialSlots(Deref(Top.ref))) > 0

\* C19: between the grid a node is entered with and the grid of each of its
\* children, a block stays a block, a letter stays the same letter, and a
\* cell that changes is a blank cell of the chosen span that becomes a
\* letter; the root is entered with the input grid.
C19_CellsChangeMonotonically ==
    /\ stack # <<>> => stack[1].entry = grid0.vecLines
    /\ \A k \in 1..(Len(stack) - 1) : \A p \in CellsOf(grid0) :
          LET e == GetChar(EntryGrid(k), p)
              c == GetChar(EntryGrid(k + 1), p)
          IN /\ e = BLOCK => c = BLOCK
             /\ e \in Letters => c = e
             /\ c # e => /\ e = BLANK
                         /\ c \in Letters
                         /\ p \in SpanCells(stack[k].slot.span)

====
